---- MODULE Spec2Model ----
(***************************************************************************)
(* Agent routing and delegation of the Discovery Cards facilitator:        *)
(* the ReactAgent, GraphAgent and SupervisorAgent workflows and the agent  *)
(* registry, as state machines over the LangGraph node/edge structure the  *)
(* agents build in create_chain.                                           *)
(*                                                                         *)
(* Text is a sequence of tokens: a token is one character or one of the    *)
(* marker words the parsers look for ("THOUGHT:", "WORKER:", ...).         *)
(***************************************************************************)
EXTENDS Integers, Sequences, FiniteSets, TLC

\* ------------------------------------------------------------------ bounds

\* Longest model reply, in tokens.
MaxReplyLen == 3
\* Largest max_iterations a ReactAgent definition is given.
MaxIterations == 3

\* ------------------------------------------------------------------ state

\* One run of a ReactAgent's workflow.
VARIABLES
    max_iterations,      \* ReactAgent.max_iterations
    react_messages,      \* ReactState.messages
    thought,             \* ReactState.thought
    action,              \* ReactState.action
    observation,         \* ReactState.observation
    iteration_count,     \* ReactState.iteration_count (absent reads as 0)
    react_pc,            \* the node the workflow runs next, or END
    thinkSteps,          \* history: executions of the think node in this run
    respondSteps         \* history: executions of the respond node in this run

reactVars == <<max_iterations, react_messages, thought, action, observation,
               iteration_count, react_pc, thinkSteps, respondSteps>>

\* The agent registry and one lookup in it.
VARIABLES
    registry,            \* AgentRegistry._agents: key -> the fields its definition has
    reg_key,             \* the key a lookup is made for
    reg_by,              \* which registry answered: "agents", "legacy", "-" before
    reg_result           \* what the lookup gave: nothing yet, or get_agent's outcome

regVars == <<reg_key, reg_by, reg_result>>

\* One turn of a GraphAgent.
VARIABLES
    graph_agents,        \* GraphAgent.agents: the configured {agent, condition} pairs
    graph_chain,         \* GraphAgent._chain: None, or the compiled workflow's path map
    graph_messages,      \* AgentState.messages
    routing_reply,       \* the reply the model gives this turn's routing request
    graph_input,         \* AgentState.input
    decision,            \* AgentState.decision
    graph_output,        \* AgentState.output
    graph_pc,            \* "create_chain", the node to run next, END or "raised"
    graph_error,         \* the exception that ended the turn, "-" if none
    invoked,             \* history: text of the key whose chain was invoked, or None
    invoked_messages,    \* history: the message list that chain was given
    startCalls           \* history: routing requests issued in this turn

graphVars == <<graph_agents, graph_chain, graph_messages, routing_reply, graph_input,
               decision,
               graph_output, graph_pc, graph_error, invoked, invoked_messages,
               startCalls>>

\* One turn of a SupervisorAgent.
VARIABLES
    sup_workers,         \* SupervisorAgent.workers
    sup_messages,        \* SupervisorState.messages
    worker_messages,     \* the messages the latest worker chain was invoked with
    sup_response,    \* the decision model's latest reply, None before the first
    next_worker,         \* SupervisorState.next_worker
    worker_response,     \* SupervisorState.worker_response
    delegation_reason,   \* SupervisorState.delegation_reason
    sup_pc,              \* the node to run next, END or "raised"
    sup_error,           \* the exception that ended the turn, "-" if none
    supervisorRuns,      \* history: executions of the supervisor node in this turn
    workerRuns           \* history: executions of a worker node in this turn

supVars == <<sup_workers, sup_messages, worker_messages, sup_response, next_worker, worker_response,
             delegation_reason, sup_pc, sup_error, supervisorRuns, workerRuns>>

\* Building a persona agent from its definition and loading its system messages.
VARIABLES
    readable,            \* the prompt files that can be opened and read
    pl_definition,       \* the agent definition: persona(s) and document(s)
    pl_documents,        \* the documents argument handed to the agent's constructor
    pl_agent,            \* the class of the agent built, "-" if none
    pl_prompts,          \* get_system_prompts() / get_system_messages(), None before
    pl_pc,               \* "define", "built", "loaded" or "raised"
    pl_error             \* the exception raised, "-" if none

promptVars == <<readable, pl_definition, pl_documents, pl_agent, pl_prompts, pl_pc,
                pl_error>>

\* A chat session: a Streamlit page, an AgentCore page, or a Chainlit session.
VARIABLES
    ui,                  \* the front end: "streamlit", "core" or "chainlit"
    conversation,        \* page["messages"] / the session's conversation_history
    displayed,           \* the chat messages the front end has put on screen
    last_op,             \* the latest operation: "-", "view", "prompt", "rerun", "reset"
    last_input,          \* the raw input of the latest prompt, None if none
    last_stream,         \* what the chat client streamed in the latest turn
    raised,              \* the latest operation left its handler by an exception
    ops                  \* history: operations so far

sessionVars == <<ui, conversation, displayed, last_op, last_input,
                 last_stream, raised, ops>>

\* The Chainlit application: its pages, its sessions and the process-wide caches.
VARIABLES
    pages_config,        \* the agent pages of pages.yaml, in file order
    cs_user,             \* per session: the roles of the authenticated user, or None
    cs_available,        \* per session: user_session "available_agents", empty if unset
    cs_current,          \* per session: user_session "current_agent", or None
    cs_history,          \* per session: user_session "conversation_history"
    llm_cache,           \* the arguments _create_llm is cached for
    prompt_cache,        \* the arguments load_prompt_files is cached for
    cs_started,          \* the sessions whose chat start or resume handler has run
    cs_last,             \* history: the latest event, and what it handed to an agent
    cs_events            \* history: events so far

chainlitVars == <<pages_config, cs_user, cs_available, cs_current, cs_history,
                  llm_cache, prompt_cache, cs_started, cs_last, cs_events>>

\* One count of the tokens of a message list.
VARIABLES
    tk_messages,         \* the messages to count
    tk_by,               \* the module whose count_tokens counted: "-" before
    tk_count             \* the count, 0 before

tokenVars == <<tk_messages, tk_by, tk_count>>

\* auth_callback: the credentials file, the last call and its result, and the
\* number of calls.
VARIABLES auth_file, auth_last, auth_logins

authVars == <<auth_file, auth_last, auth_logins>>

vars == <<reactVars, registry, regVars, graphVars, supVars, promptVars, sessionVars,
          chainlitVars,
          tokenVars,
          authVars>>

\* What the steps of one component leave alone.
notReact == <<registry, regVars, graphVars, supVars, promptVars, sessionVars,
    chainlitVars,
    tokenVars,
    authVars>>
notRegistry == <<reactVars, graphVars, supVars, promptVars, sessionVars,
    chainlitVars,
    tokenVars,
    authVars>>
notGraph == <<reactVars, regVars, supVars, promptVars, sessionVars,
    chainlitVars,
    tokenVars,
    authVars>>
notSupervisor == <<reactVars, regVars, graphVars, promptVars, sessionVars,
    chainlitVars,
    tokenVars,
    authVars>>
notPrompts == <<reactVars, registry, regVars, graphVars, supVars, sessionVars,
    chainlitVars,
    tokenVars,
    authVars>>
notSession == <<reactVars, registry, regVars, graphVars, supVars, promptVars,
    chainlitVars,
    tokenVars,
    authVars>>
notChainlit == <<reactVars, regVars, graphVars, supVars, promptVars, sessionVars,
    tokenVars,
    authVars>>
notTokens == <<reactVars, registry, regVars, graphVars, supVars, promptVars, sessionVars, chainlitVars,
    authVars>>
notAuth == <<reactVars, registry, regVars, graphVars, supVars, promptVars, sessionVars, chainlitVars, tokenVars>>

\* ------------------------------------------------------------------- text

NL == "\n"
Whitespace == {" ", NL}

\* Python's None, and langgraph.graph.END.
None == <<"<None>">>
END == "__end__"

\* All texts over the token set T of at most n tokens.
RECURSIVE TextsUpTo(_, _)
TextsUpTo(T, n) ==
    IF n = 0 THEN {<<>>}
    ELSE LET shorter == TextsUpTo(T, n - 1)
         IN  shorter \cup {Append(s, t) : s \in shorter, t \in T}

\* str.strip(): leading and trailing whitespace removed.
RECURSIVE lstrip(_)
lstrip(s) == IF s # <<>> /\ Head(s) \in Whitespace THEN lstrip(Tail(s)) ELSE s

RECURSIVE rstrip(_)
rstrip(s) ==
    IF s # <<>> /\ s[Len(s)] \in Whitespace
    THEN rstrip(SubSeq(s, 1, Len(s) - 1))
    ELSE s

strip(s) == rstrip(lstrip(s))

\* str.lower(), token by token.
lowerToken(t) ==
    CASE t = "A" -> "a"
      [] t = "B" -> "b"
      [] OTHER   -> t

lower(s) == [i \in 1..Len(s) |-> lowerToken(s[i])]

\* str.split('\n'): the lines of s, in order (one more than the line breaks).
RECURSIVE split(_)
split(s) ==
    IF \E i \in 1..Len(s) : s[i] = NL
    THEN LET i == CHOOSE k \in 1..Len(s) :
                      s[k] = NL /\ \A j \in 1..(k - 1) : s[j] # NL
         IN  <<SubSeq(s, 1, i - 1)>> \o split(SubSeq(s, i + 1, Len(s)))
    ELSE <<s>>

\* line.startswith(marker), for a marker token.
startswith(line, marker) == line # <<>> /\ line[1] = marker

\* line.replace(marker, ""): every occurrence of the marker token removed.
replace(line, marker) == SelectSeq(line, LAMBDA t : t # marker)

\* ------------------------------------------------------------ ReactAgent

ReactTokens == {"THOUGHT:", "ACTION:", "OBSERVATION:", "x", " ", NL}
ReactReplies == TextsUpTo(ReactTokens, MaxReplyLen)

\* A truthy Python value: neither None nor the empty string.
Truthy(v) == v # None /\ v # <<>>

React_should_continue_eq(count, act, maxit) ==
    IF count = maxit \/ Truthy(act) THEN "respond" ELSE "think"

\* ReactAgent._should_continue
React_should_continue(count, act, maxit) ==
    IF count >= maxit \/ Truthy(act) THEN "respond" ELSE "think"

\* The thought a think reply carries: the first line starting with THOUGHT:.
RECURSIVE FirstThought(_)
FirstThought(lines) ==
    IF lines = <<>> THEN <<>>
    ELSE IF startswith(Head(lines), "THOUGHT:")
         THEN strip(replace(Head(lines), "THOUGHT:"))
         ELSE FirstThought(Tail(lines))

\* The value a respond reply gives a marker: the last line starting with it.
\* A line is taken by the first of THOUGHT:, ACTION:, OBSERVATION: it starts with.
RECURSIVE LastMarked(_, _)
LastMarked(lines, marker) ==
    IF lines = <<>> THEN <<>>
    ELSE LET line == lines[Len(lines)]
         IN  IF startswith(line, marker)
             THEN strip(replace(line, marker))
             ELSE LastMarked(SubSeq(lines, 1, Len(lines) - 1), marker)

AIMessage(content) == [role |-> "assistant", content |-> content]

final_response(final_thought, act, obs) ==
    <<"**Reasoning:**", " ">> \o final_thought \o <<NL, NL, "**Response:**", " ">>
        \o act \o <<NL, NL, "**Reflection:**", " ">> \o obs

ReactAfterRespond_loop == "think"

\* create_chain: workflow.add_edge("respond", END)
ReactAfterRespond == END

\* create_chain: workflow.set_entry_point("think")
ReactEntryPoint == "think"

ReactInit ==
    /\ max_iterations \in 0..MaxIterations
    /\ react_messages = <<[role |-> "user", content |-> <<"x">>]>>
    /\ thought = None
    /\ action = None
    /\ observation = None
    /\ iteration_count = 0
    /\ react_pc = ReactEntryPoint
    /\ thinkSteps = 0
    /\ respondSteps = 0

\* ReactAgent._think_node, then the conditional edge out of think.
think_node ==
    /\ react_pc = "think"
    /\ \E content \in ReactReplies :
          thought' = FirstThought(split(content))
    /\ iteration_count' = iteration_count + 1
    /\ react_pc' = React_should_continue(iteration_count', action, max_iterations)
    /\ thinkSteps' = thinkSteps + 1
    /\ UNCHANGED <<max_iterations, react_messages, action, observation, respondSteps>>
    /\ UNCHANGED notReact

\* ReactAgent._respond_node, then the edge respond -> END.
respond_node ==
    /\ react_pc = "respond"
    /\ \E content \in ReactReplies :
          LET lines == split(content)
              final_thought == LastMarked(lines, "THOUGHT:")
              act == LastMarked(lines, "ACTION:")
              obs == LastMarked(lines, "OBSERVATION:")
          IN  /\ thought' = final_thought
              /\ action' = act
              /\ observation' = obs
              /\ react_messages' =
                     Append(react_messages,
                            AIMessage(final_response(final_thought, act, obs)))
    /\ react_pc' = ReactAfterRespond
    /\ respondSteps' = respondSteps + 1
    /\ UNCHANGED <<max_iterations, iteration_count, thinkSteps>>
    /\ UNCHANGED notReact

ReactNext == think_node \/ respond_node

\* ---------------------------------------------------------- AgentRegistry

\* Keys an agent definition may have in pages.yaml.
Keys == {"a", "b"}

\* The fields get_agent inspects, and the optional ones of each variant.
VariantFields ==
    {"persona", "personas", "condition", "workers", "delegation_prompt", "react_persona"}
OptionalFields == {"document", "documents"}
Fields == VariantFields \cup OptionalFields

\* The text that names key k.
TextOf(k) == <<k>>

\* dict.get(agent_key): the definition of the key the text names, or None.
RegistryGet(reg, keyText) ==
    IF \E k \in DOMAIN reg : TextOf(k) = keyText
    THEN [found |-> TRUE, config |-> reg[CHOOSE k \in DOMAIN reg : TextOf(k) = keyText]]
    ELSE [found |-> FALSE, config |-> {}]

\* Outcomes of a lookup or a construction.
ReturnNone == [outcome |-> "None", cls |-> "-", error |-> "-"]
Raise(e) == [outcome |-> "raise", cls |-> "-", error |-> e]
ReturnAgent(cls) == [outcome |-> "agent", cls |-> cls, error |-> "-"]

\* Classes deriving from Agent (abc.ABC) that leave the abstract create_chain
\* undefined: SingleAgent defines get_system_prompts and create_agent only.
AbstractClasses == {"SingleAgent"}

\* cls(...): Python refuses to instantiate a class with abstract methods left.
Instantiate(cls) ==
    IF cls \in AbstractClasses THEN Raise("TypeError") ELSE ReturnAgent(cls)

get_agent_config_default(found, config) ==
    IF ~found \/ config = {} THEN ReturnAgent("ReactAgent")
    ELSE IF "persona" \in config THEN Instantiate("SingleAgent")
    ELSE IF "condition" \in config THEN Instantiate("GraphAgent")
    ELSE IF "workers" \in config /\ "delegation_prompt" \in config
         THEN Instantiate("SupervisorAgent")
    ELSE IF "react_persona" \in config THEN Instantiate("ReactAgent")
    ELSE Raise("ValueError")

\* agents.agent_registry.AgentRegistry.get_agent on a definition with these fields.
get_agent_config(found, config) ==
    IF ~found \/ config = {} THEN ReturnNone
    ELSE IF "persona" \in config THEN Instantiate("SingleAgent")
    ELSE IF "condition" \in config THEN Instantiate("GraphAgent")
    ELSE IF "workers" \in config /\ "delegation_prompt" \in config
         THEN Instantiate("SupervisorAgent")
    ELSE IF "react_persona" \in config THEN Instantiate("ReactAgent")
    ELSE Raise("ValueError")

\* agent_registry.get_agent(agent_key)
get_agent(reg, keyText) ==
    LET e == RegistryGet(reg, keyText) IN get_agent_config(e.found, e.config)

\* agent_registry.AgentRegistry.get_agent of the Streamlit build (src/agent_registry.py).
legacy_get_agent_config(found, config) ==
    IF ~found \/ config = {} THEN ReturnNone
    ELSE IF "persona" \in config THEN ReturnAgent("SingleAgent")
    ELSE IF "personas" \in config THEN ReturnAgent("MultiAgent")
    ELSE Raise("ValueError")

NoResult == [outcome |-> "pending", cls |-> "-", error |-> "-"]

\* Registries in which the keys of D are defined, each with a definition of Shapes.
Registries(D, Shapes) == UNION {[E -> Shapes] : E \in SUBSET D}

RegistryInit ==
    /\ registry \in Registries({"a"}, SUBSET Fields)
    /\ reg_key \in Keys
    /\ reg_by = "-"
    /\ reg_result = NoResult

\* A caller looks the key up in the agents package's registry.
LookupAgent ==
    /\ reg_result = NoResult
    /\ reg_result' = get_agent(registry, TextOf(reg_key))
    /\ reg_by' = "agents"
    /\ UNCHANGED <<registry, reg_key>>
    /\ UNCHANGED notRegistry

\* A caller looks the key up in the Streamlit build's registry.
LookupLegacyAgent ==
    /\ reg_result = NoResult
    /\ reg_result' =
           LET e == RegistryGet(registry, TextOf(reg_key))
           IN  legacy_get_agent_config(e.found, e.config)
    /\ reg_by' = "legacy"
    /\ UNCHANGED <<registry, reg_key>>
    /\ UNCHANGED notRegistry

RegistryNext == LookupAgent \/ LookupLegacyAgent

\* ------------------------------------------------------------ GraphAgent

\* Longest list of sub-agents a GraphAgent definition is given.
MaxAgents == 2

\* Trigger descriptions a definition may give a sub-agent: free text, or text
\* that happens to be a sub-agent key.
Conditions == Keys \cup {"topic"}

RECURSIVE SeqsUpTo(_, _)
SeqsUpTo(S, n) ==
    IF n = 0 THEN {<<>>}
    ELSE LET shorter == SeqsUpTo(S, n - 1)
         IN  shorter \cup {Append(q, x) : q \in shorter, x \in S}

\* Sub-agent lists: a GraphAgent routes among at least one sub-agent, and each
\* list names a key once (add_node refuses a second node of a name).
AgentLists ==
    {l \in SeqsUpTo([agent : Keys, condition : Conditions], MaxAgents) :
        /\ l # <<>>
        /\ \A i, j \in 1..Len(l) : l[i].agent = l[j].agent => i = j}

\* Definitions the sub-agents of the modelled GraphAgent and SupervisorAgent have.
SubAgentShapes ==
    {{"react_persona"}, {"condition"}, {"workers", "delegation_prompt"},
     {"persona"}, {"workers"}}

GraphTokens == {"a", "B", " ", NL}
GraphTexts == TextsUpTo(GraphTokens, MaxReplyLen)
\* response.content: a string, or a list of content parts.
GraphReplies ==
    [type : {"str"}, text : GraphTexts, parts : {<<>>}]
        \cup [type : {"list"}, text : {<<>>}, parts : SeqsUpTo(TextsUpTo(GraphTokens, 1), 2)]

\* The system messages of the agent registered under a key.
SystemMessage(content) == [role |-> "system", content |-> content]

\* get_system_prompts() of an agent of class cls built for the key.
get_system_prompts(cls, keyText) ==
    CASE cls = "GraphAgent" -> <<>>
      [] cls = "SupervisorAgent" -> <<SystemMessage(<<"delegation_prompt:">> \o keyText)>>
      [] cls = "ReactAgent" ->
            <<SystemMessage(<<"persona:">> \o keyText \o <<"guardrails">>),
              SystemMessage(<<"react_instructions">>)>>
      [] OTHER -> <<SystemMessage(<<"persona:">> \o keyText \o <<"guardrails">>)>>

\* What invoking the chain of an agent of class cls can do: a ReactAgent's workflow
\* returns; a SupervisorAgent's raises when it ends (see SupervisorPathMap);
\* a GraphAgent's returns or raises.
InvokeOutcomes(cls) ==
    CASE cls = "ReactAgent" -> {"ok"}
      [] cls = "SupervisorAgent" -> {"raise"}
      [] OTHER -> {"ok", "raise"}

\* create_chain: decisions[agent["agent"]] = agent["condition"], the path map of
\* the conditional edge out of start (a later pair of the same key overrides).
GraphPathMap(agents) ==
    [d \in {TextOf(agents[i].agent) : i \in 1..Len(agents)} |->
        LET i == CHOOSE k \in 1..Len(agents) :
                     /\ TextOf(agents[k].agent) = d
                     /\ \A j \in (k + 1)..Len(agents) : TextOf(agents[j].agent) # d
        IN  agents[i].condition]

\* create_chain: the nodes added to the workflow.
GraphNodes(agents) == {"start"} \cup {agents[i].agent : i \in 1..Len(agents)}

\* workflow.compile() validates the graph: every target of a path map must be a
\* node of the workflow or END.
CompileOk(nodes, pathMap) ==
    \A d \in DOMAIN pathMap : pathMap[d] \in nodes \cup {END}

\* The conditional edge: the path function's result is looked up in the path map;
\* a result that is no key of the map raises KeyError.
Route(pathMap, result) ==
    IF result \in DOMAIN pathMap
    THEN [ok |-> TRUE, node |-> pathMap[result]]
    ELSE [ok |-> FALSE, node |-> "-"]

\* " ".join(contents)
RECURSIVE join(_)
join(texts) ==
    IF texts = <<>> THEN <<>>
    ELSE IF Len(texts) = 1 THEN texts[1]
    ELSE texts[1] \o <<" ">> \o join(Tail(texts))

\* messages[-n:]
LastN(msgs, n) ==
    IF Len(msgs) <= n THEN msgs ELSE SubSeq(msgs, Len(msgs) - n + 1, Len(msgs))

ParseDecision_whole(reply) ==
    IF reply.type = "str" THEN reply.text
    ELSE IF reply.parts # <<>> THEN reply.parts[1] ELSE <<>>

\* _start_agent: the decision taken from the routing reply.
ParseDecision(reply) ==
    IF reply.type = "str" THEN lower(strip(reply.text))
    ELSE lower(strip(IF reply.parts # <<>> THEN reply.parts[1] ELSE <<>>))

Conversations ==
    {<<[role |-> "user", content |-> <<"x">>]>>,
     <<[role |-> "user", content |-> <<"x">>],
       [role |-> "assistant", content |-> <<"y">>],
       [role |-> "user", content |-> <<"a">>]>>}

GraphInit ==
    /\ registry \in Registries(Keys, SubAgentShapes)
    /\ graph_agents \in AgentLists
    /\ graph_chain = None
    /\ graph_messages \in Conversations
    /\ routing_reply \in GraphReplies
    /\ graph_input = None
    /\ decision = None
    /\ graph_output = None
    /\ graph_pc = "create_chain"
    /\ graph_error = "-"
    /\ invoked = None
    /\ invoked_messages = <<>>
    /\ startCalls = 0

\* Agent.astream -> GraphAgent.create_chain: build and compile the workflow.
create_chain ==
    /\ graph_pc = "create_chain"
    /\ LET pathMap == GraphPathMap(graph_agents)
       IN  IF CompileOk(GraphNodes(graph_agents), pathMap)
           THEN /\ graph_chain' = pathMap
                /\ graph_pc' = "start"
                /\ graph_error' = "-"
           ELSE /\ graph_chain' = None
                /\ graph_pc' = "raised"
                /\ graph_error' = "ValueError"
    /\ UNCHANGED <<registry, graph_agents, graph_messages, routing_reply, graph_input,
                   decision,
                   graph_output, invoked, invoked_messages, startCalls>>
    /\ UNCHANGED notGraph

\* GraphAgent._start_agent, then the conditional edge out of start.
start_agent ==
    /\ graph_pc = "start"
    /\ LET input_text ==
               join([i \in 1..Len(LastN(graph_messages, 5)) |->
                         LastN(graph_messages, 5)[i].content])
           d == ParseDecision(routing_reply)
           edge == Route(graph_chain, d)
       IN  /\ decision' = d
           /\ graph_input' = input_text
           /\ graph_output' = <<"Agent decision: ">> \o d
           /\ IF edge.ok
              THEN graph_pc' = edge.node /\ graph_error' = "-"
              ELSE graph_pc' = "raised" /\ graph_error' = "KeyError"
    /\ startCalls' = startCalls + 1
    /\ UNCHANGED <<registry, graph_agents, graph_chain, graph_messages, routing_reply,
                   invoked, invoked_messages>>
    /\ UNCHANGED notGraph

\* GraphAgent._agent_node (the function of every sub-agent node), then the edge
\* to END.
agent_node ==
    /\ graph_pc \in GraphNodes(graph_agents) \ {"start"}
    /\ LET agent == get_agent(registry, decision)
       IN  IF agent.outcome = "None"
           THEN /\ graph_pc' = "raised"
                /\ graph_error' = "ValueError"
                /\ UNCHANGED <<graph_output, invoked, invoked_messages>>
           ELSE IF agent.outcome = "raise"
           THEN /\ graph_pc' = "raised"
                /\ graph_error' = agent.error
                /\ UNCHANGED <<graph_output, invoked, invoked_messages>>
           ELSE /\ invoked' = decision
                /\ invoked_messages' =
                       get_system_prompts(agent.cls, decision) \o graph_messages
                /\ \E result \in InvokeOutcomes(agent.cls) :
                      IF result = "ok"
                      THEN /\ graph_output' = <<"msg">>
                           /\ graph_pc' = END
                           /\ graph_error' = "-"
                      ELSE /\ graph_output' = graph_output
                           /\ graph_pc' = "raised"
                           /\ graph_error' = "Exception"
    /\ UNCHANGED <<registry, graph_agents, graph_chain, graph_messages, routing_reply,
                   graph_input, decision, startCalls>>
    /\ UNCHANGED notGraph

GraphNext == create_chain \/ start_agent \/ agent_node

\* -------------------------------------------------------- SupervisorAgent

\* Most worker delegations followed in one turn.
MaxDelegations == 2

SupTokens == {"WORKER:", "REASON:", "a", "END", " ", NL}
SupReplies == TextsUpTo(SupTokens, MaxReplyLen)

\* Worker lists: each names a key once (a node per worker).
WorkerLists ==
    {l \in SeqsUpTo(Keys, Cardinality(Keys)) :
        \A i, j \in 1..Len(l) : l[i] = l[j] => i = j}

WorkerSet(workers) == {workers[i] : i \in 1..Len(workers)}

\* SupervisorAgent._should_continue: the text naming the node to go to.
Supervisor_should_continue(nextWorker, workers) ==
    IF \E w \in WorkerSet(workers) : TextOf(w) = nextWorker
    THEN nextWorker
    ELSE TextOf(END)

\* A path map without the worker nodes.
SupervisorPathMap_end_only(workers) ==
    [d \in {TextOf("END")} |-> END]

\* create_chain: {worker: worker for worker in self.workers} | {"END": END}
SupervisorPathMap(workers) ==
    [d \in {TextOf(w) : w \in WorkerSet(workers)} \cup {TextOf("END")} |->
        IF d = TextOf("END") THEN END ELSE d[1]]

\* _supervisor_node: the last line starting with the marker gives the value;
\* a line starting with WORKER: is not read for REASON:.
RECURSIVE ParseSupervisor(_, _, _)
ParseSupervisor(lines, worker, reason) ==
    IF lines = <<>> THEN [next_worker |-> worker, delegation_reason |-> reason]
    ELSE LET line == Head(lines)
         IN  IF startswith(line, "WORKER:")
             THEN ParseSupervisor(Tail(lines), strip(replace(line, "WORKER:")), reason)
             ELSE IF startswith(line, "REASON:")
             THEN ParseSupervisor(Tail(lines), worker, strip(replace(line, "REASON:")))
             ELSE ParseSupervisor(Tail(lines), worker, reason)

\* The registry key of the SupervisorAgent whose turn is modelled.
SupervisorKey == <<"supervisor">>

\* Agent.astream starts the workflow on get_system_prompts() + messages.
SupervisorInit ==
    /\ registry \in Registries({"a"}, SubAgentShapes)
    /\ sup_workers \in WorkerLists
    /\ sup_messages \in
           {get_system_prompts("SupervisorAgent", SupervisorKey) \o c :
               c \in Conversations}
    /\ worker_messages = None
    /\ sup_response = None
    /\ next_worker = None
    /\ worker_response = None
    /\ delegation_reason = None
    /\ sup_pc = "supervisor"
    /\ sup_error = "-"
    /\ supervisorRuns = 0
    /\ workerRuns = 0

\* SupervisorAgent._supervisor_node, then the conditional edge out of supervisor.
supervisor_node ==
    /\ sup_pc = "supervisor"
    /\ \E content \in SupReplies :
          LET parsed == ParseSupervisor(split(strip(content)), <<"END">>,
                                        <<"No specific delegation needed">>)
              edge == Route(SupervisorPathMap(sup_workers),
                            Supervisor_should_continue(parsed.next_worker, sup_workers))
          IN  /\ sup_response' = content
              /\ next_worker' = parsed.next_worker
              /\ delegation_reason' = parsed.delegation_reason
              /\ IF edge.ok
                 THEN sup_pc' = edge.node /\ sup_error' = "-"
                 ELSE sup_pc' = "raised" /\ sup_error' = "KeyError"
    /\ supervisorRuns' = supervisorRuns + 1
    /\ UNCHANGED <<registry, sup_workers, sup_messages, worker_messages,
                   worker_response, workerRuns>>
    /\ UNCHANGED notSupervisor

\* SupervisorAgent._worker_node (the function of every worker node), then the
\* edge back to supervisor.
worker_node ==
    /\ sup_pc \in WorkerSet(sup_workers)
    /\ workerRuns < MaxDelegations
    /\ LET worker_key == next_worker
           worker_agent == get_agent(registry, worker_key)
       IN  IF worker_agent.outcome = "None"
           THEN LET error_message ==
                        <<"Error: Worker agent '">> \o worker_key \o <<"' not available.">>
                IN  /\ sup_messages' = Append(sup_messages, AIMessage(error_message))
                    /\ worker_response' = error_message
                    /\ sup_pc' = "supervisor"
                    /\ UNCHANGED <<worker_messages, next_worker, sup_error>>
           ELSE IF worker_agent.outcome = "raise"
           THEN /\ sup_pc' = "raised"
                /\ sup_error' = worker_agent.error
                /\ UNCHANGED <<sup_messages, worker_messages, worker_response,
                               next_worker>>
           ELSE \E result \in InvokeOutcomes(worker_agent.cls) :
                /\ worker_messages' =
                       get_system_prompts(worker_agent.cls, worker_key) \o sup_messages
                /\ IF result = "ok"
                   THEN /\ sup_messages' =
                               Append(sup_messages, AIMessage(<<"worker_output">>))
                        /\ worker_response' = <<"worker_output">>
                        /\ next_worker' = <<"END">>
                        /\ sup_pc' = "supervisor"
                        /\ UNCHANGED sup_error
                   ELSE /\ sup_pc' = "raised"
                        /\ sup_error' = "Exception"
                        /\ UNCHANGED <<sup_messages, worker_response, next_worker>>
    /\ workerRuns' = workerRuns + 1
    /\ UNCHANGED <<registry, sup_workers, sup_response, delegation_reason,
                   supervisorRuns>>
    /\ UNCHANGED notSupervisor

SupervisorNext == supervisor_node \/ worker_node

\* ---------------------------------------------------------- prompt files

\* Longest list of personas, and of documents, a definition gives.
MaxPersonas == 2
MaxDocuments == 2

PersonaFiles == {"p1", "p2"}
DocumentFiles == {"d1", "d2"}

\* f.read(): a file's text.
FileText(f) == <<f>>

\* The ways a set is iterated over: every order of its elements, each once.
Orderings(S) ==
    {q \in SeqsUpTo(S, Cardinality(S)) :
        Len(q) = Cardinality(S) /\ \A i, j \in 1..Len(q) : q[i] = q[j] => i = j}

\* The values of a documents argument: None, one path, a list, a frozenset (kept
\* as the sequence its iteration gives).
NoDocuments == [type |-> "None", paths |-> <<>>]
OnePath(f) == [type |-> "str", paths |-> <<f>>]
PathList(l) == [type |-> "list", paths |-> l]
PathFrozenSet(q) == [type |-> "frozenset", paths |-> q]

\* frozenset(paths): the elements of the list, iterated in an order of its own.
frozensets(l) == {PathFrozenSet(q) : q \in Orderings({l[i] : i \in 1..Len(l)})}

\* if content_file_paths: None, "" and an empty collection are falsy.
TruthyDocuments(d) == d.type # "None" /\ d.paths # <<>>

\* load_prompt_files: the document messages of the paths, unreadable files skipped.
RECURSIVE DocumentMessages(_, _)
DocumentMessages(paths, canRead) ==
    IF paths = <<>> THEN <<>>
    ELSE (IF Head(paths) \in canRead
          THEN <<SystemMessage(<<NL, "<documents>">> \o FileText(Head(paths))
                                   \o <<"</documents>">>)>>
          ELSE <<>>)
         \o DocumentMessages(Tail(paths), canRead)

\* load_prompt_files(persona_file_path, content_file_paths), both the cached
\* loader and the one of utils.openai_utils: the messages, or the error of
\* opening the persona file.
load_prompt_files(persona, documents, canRead) ==
    IF persona \notin canRead
    THEN [ok |-> FALSE, messages |-> <<>>]
    ELSE [ok |-> TRUE,
          messages |->
              <<SystemMessage(FileText(persona) \o FileText("guardrails"))>>
                  \o (IF TruthyDocuments(documents)
                      THEN DocumentMessages(documents.paths, canRead)
                      ELSE <<>>)]

\* The definitions of persona agents: one persona with no document, a document
\* or a list of documents; or a list of personas with or without a documents list.
SingleDefinitions ==
    [kind : {"persona"}, personas : {<<f>> : f \in PersonaFiles},
     documents : {NoDocuments} \cup {OnePath(f) : f \in DocumentFiles}
                     \cup {PathList(l) : l \in SeqsUpTo(DocumentFiles, MaxDocuments)}]

MultiDefinitions ==
    [kind : {"personas"},
     personas : SeqsUpTo(PersonaFiles, MaxPersonas) \ {<<>>},
     documents : {NoDocuments}
                     \cup {PathList(l) : l \in SeqsUpTo(DocumentFiles, MaxDocuments)}]

PromptsInit ==
    /\ readable \in SUBSET (PersonaFiles \cup DocumentFiles)
    /\ pl_definition \in SingleDefinitions \cup MultiDefinitions
    /\ pl_documents = NoDocuments
    /\ pl_agent = "-"
    /\ pl_prompts = None
    /\ pl_pc = "define"
    /\ pl_error = "-"

\* The fields a definition has in the registry's file.
FieldsOf(definition) ==
    {definition.kind}
        \cup (IF definition.documents.type = "str" THEN {"document"}
              ELSE IF definition.documents.type = "list" THEN {"documents"}
              ELSE {})

MultiAgent_get_system_messages_first(personas, documents, canRead) ==
    LET loaded == [i \in 1..Len(personas) |->
                      load_prompt_files(personas[i],
                          IF TruthyDocuments(documents)
                          THEN OnePath(documents.paths[1]) ELSE NoDocuments,
                          canRead)]
        Concat[i \in 0..Len(personas)] ==
            IF i = 0 THEN <<>> ELSE Concat[i - 1] \o loaded[i].messages
    IN  [ok |-> \A i \in 1..Len(personas) : loaded[i].ok,
         messages |-> Concat[Len(personas)]]

\* MultiAgent.get_system_messages (agent_impl.MultiAgentImpl has the same body):
\* with documents, persona i is loaded with documents[i] when i < len(documents);
\* without, every persona is loaded alone.
MultiAgent_get_system_messages(personas, documents, canRead) ==
    LET persona_docs(i) ==
            IF TruthyDocuments(documents)
            THEN (IF i <= Len(documents.paths)
                  THEN OnePath(documents.paths[i]) ELSE NoDocuments)
            ELSE NoDocuments
        loaded == [i \in 1..Len(personas) |->
                      load_prompt_files(personas[i], persona_docs(i), canRead)]
        Concat[i \in 0..Len(personas)] ==
            IF i = 0 THEN <<>> ELSE Concat[i - 1] \o loaded[i].messages
    IN  [ok |-> \A i \in 1..Len(personas) : loaded[i].ok,
         messages |-> Concat[Len(personas)]]

\* agents.agent_registry.AgentRegistry.get_agent on a persona(s) definition: the
\* persona branch turns a documents list into a frozenset, then constructs.
BuildAgent ==
    /\ pl_pc = "define"
    /\ LET result == get_agent_config(TRUE, FieldsOf(pl_definition))
       IN  /\ IF pl_definition.kind = "persona"
              THEN IF pl_definition.documents.type = "list"
                   THEN pl_documents' \in frozensets(pl_definition.documents.paths)
                   ELSE pl_documents' = pl_definition.documents
              ELSE pl_documents' = NoDocuments
           /\ IF result.outcome = "agent"
              THEN pl_agent' = result.cls /\ pl_pc' = "built" /\ pl_error' = "-"
              ELSE pl_agent' = "-" /\ pl_pc' = "raised" /\ pl_error' = result.error
    /\ UNCHANGED <<readable, pl_definition, pl_prompts>>
    /\ UNCHANGED notPrompts

\* agent_registry.AgentRegistry.get_agent of the Streamlit build on a persona(s)
\* definition: the document or the documents list is handed over as it is.
BuildLegacyAgent ==
    /\ pl_pc = "define"
    /\ LET result == legacy_get_agent_config(TRUE, FieldsOf(pl_definition))
       IN  /\ pl_documents' = pl_definition.documents
           /\ IF result.outcome = "agent"
              THEN pl_agent' = result.cls /\ pl_pc' = "built" /\ pl_error' = "-"
              ELSE pl_agent' = "-" /\ pl_pc' = "raised" /\ pl_error' = result.error
    /\ UNCHANGED <<readable, pl_definition, pl_prompts>>
    /\ UNCHANGED notPrompts

\* get_system_prompts() / get_system_messages() of the agent that was built.
GetSystemMessages ==
    /\ pl_pc = "built"
    /\ LET loaded ==
               IF pl_agent = "MultiAgent"
               THEN MultiAgent_get_system_messages(pl_definition.personas,
                                                   pl_documents, readable)
               ELSE load_prompt_files(pl_definition.personas[1], pl_documents,
                                      readable)
       IN  IF loaded.ok
           THEN /\ pl_prompts' = loaded.messages
                /\ pl_pc' = "loaded"
                /\ pl_error' = "-"
           ELSE /\ pl_prompts' = None
                /\ pl_pc' = "raised"
                /\ pl_error' = "FileNotFoundError"
    /\ UNCHANGED <<readable, pl_definition, pl_documents, pl_agent>>
    /\ UNCHANGED notPrompts

PromptsNext == BuildAgent \/ BuildLegacyAgent \/ GetSystemMessages

\* --------------------------------------------------------- chat sessions

\* Most operations in one session.
MaxOps == 2

\* What a user types: plain text, text with a tag, brackets that make no tag,
\* text with blanks around it, a command.
UserInputs ==
    {<<"x">>, <<"<", "x", ">">>, <<"<", ">">>, <<">", "x", "<">>,
     <<" ", "x", " ">>, <<"/", "x">>}

\* The characters of a text, the <documents> markers spelled out.
RECURSIVE Chars(_)
Chars(text) ==
    IF text = <<>> THEN <<>>
    ELSE (IF Head(text) = "<documents>" THEN <<"<", "documents", ">">>
          ELSE IF Head(text) = "</documents>" THEN <<"<", "/documents", ">">>
          ELSE <<Head(text)>>)
         \o Chars(Tail(text))

\* re.findall(r"<[^>]+>", ...) from position i on: a match starts at a "<" that
\* is followed by a character other than ">" and, later, by a ">"; the search
\* goes on after the match.
RECURSIVE CountTagsFrom(_, _)
CountTagsFrom(chars, i) ==
    IF i > Len(chars) THEN 0
    ELSE IF /\ chars[i] = "<"
            /\ i + 1 <= Len(chars)
            /\ chars[i + 1] # ">"
            /\ \E j \in (i + 2)..Len(chars) : chars[j] = ">"
         THEN LET j == CHOOSE k \in (i + 2)..Len(chars) :
                           /\ chars[k] = ">"
                           /\ \A m \in (i + 2)..(k - 1) : chars[m] # ">"
              IN  1 + CountTagsFrom(chars, j + 1)
         ELSE CountTagsFrom(chars, i + 1)

\* count_xml_tags(text)
count_xml_tags(text) == CountTagsFrom(Chars(text), 1)

\* handle_chat_prompt, "Cleanup prompt": a prompt with tags is embedded in
\* <documents>...</documents>.
CleanupPrompt(prompt) ==
    IF count_xml_tags(prompt) > 0
    THEN <<"<documents>">> \o prompt \o <<"</documents>">>
    ELSE prompt

UserMessage(content) == [role |-> "user", content |-> content]
AssistantMessage(content) == [role |-> "assistant", content |-> content]

\* What the chat client does in one turn: the content fragments it streams, and
\* how the turn ends: "terminal", the stream reaches its last chunk; "error",
\* the stream raises an exception; "abandon", the front end tears the turn
\* down (a BaseException: script stop, task cancellation); "raise", an
\* exception outside the stream, before any fragment.
StreamedFragments == {<<>>, <<"f">>, <<"f", "g">>, <<" ">>}

Streams ==
    [fragments : StreamedFragments, end : {"terminal", "error", "abandon"}]
        \cup {[fragments |-> <<>>, end |-> "raise"]}

NoStream == [fragments |-> <<>>, end |-> "-"]

\* The fixed strings of the handlers.
StreamlitFallback == "An error happened, retry your request.\n"
NoResponse == "Error: No response received from the model, try again."
EventLoopFallback == "The async agent is temporarily unavailable. Please try again."
CoreStreamError == "\nAn error occurred during processing. Please try again."
CoreFallback == "An error occurred while processing your request. Please try again."
ChainlitError == "Error processing your message: "
ChainlitNotFound == "Agent not found in registry."
ChainlitNoAgent == "No agent selected."

\* The system messages a page starts its conversation with.
PageSystemMessages ==
    <<SystemMessage(<<"persona", "guardrails">>), SystemMessage(<<"<documents>", "d1", "</documents>">>)>>

\* What one call of a handler leaves: the message list, the chat messages it
\* put on screen, and whether it was left by an exception.
Handled(messages, shown, exc) == [messages |-> messages, shown |-> shown, raised |-> exc]

\* utils.openai_utils.handle_chat_prompt(prompt, messages, agent), the chat
\* client streaming as the stream says.
handle_chat_prompt(prompt, messages, stream) ==
    LET content == CleanupPrompt(prompt)
        echoed == Append(messages, UserMessage(content))
        full_response ==
            CASE stream.end = "terminal" -> stream.fragments
              [] stream.end = "error" -> stream.fragments \o <<StreamlitFallback>>
              [] stream.end = "raise" -> <<EventLoopFallback>>
              [] OTHER -> stream.fragments
        rendered == IF full_response = <<>> THEN <<NoResponse>> ELSE full_response
        shown == <<UserMessage(content), AssistantMessage(rendered)>>
    IN  IF stream.end = "abandon"
        THEN Handled(echoed, shown, TRUE)
        ELSE Handled(Append(echoed, AssistantMessage(full_response)), shown, FALSE)

\* AgentCore.handle_chat_prompt(prompt, page): create_chat_completion turns an
\* exception of the stream into one more chunk; the handler replaces the
\* response when an exception reaches it.
AgentCore_handle_chat_prompt(prompt, messages, stream) ==
    LET content == CleanupPrompt(prompt)
        echoed == Append(messages, UserMessage(content))
        full_response ==
            CASE stream.end = "terminal" -> stream.fragments
              [] stream.end = "error" -> stream.fragments \o <<CoreStreamError>>
              [] stream.end = "raise" -> <<CoreFallback>>
              [] OTHER -> stream.fragments
    IN  IF stream.end = "abandon"
        THEN Handled(echoed, <<>>, TRUE)
        ELSE Handled(Append(echoed, AssistantMessage(full_response)), <<>>, FALSE)

\* chainlit_app.process_with_agent(content, agent_key, user). The list the
\* session hands out is the stored one once a history was stored, so what is
\* appended to it stays; before that the list is a new one and is kept only by
\* cl.user_session.set.
process_with_agent(content, messages, found, stream) ==
    LET history == Append(messages, UserMessage(content))
        kept == IF messages = <<>> THEN messages ELSE history
        streamed == IF stream.fragments = <<>> THEN <<>>
                    ELSE <<AssistantMessage(stream.fragments)>>
        response == strip(stream.fragments)
    IN  IF ~found
        THEN Handled(messages, <<AssistantMessage(<<ChainlitNotFound>>)>>, FALSE)
        ELSE CASE stream.end = "terminal" ->
                    Handled(IF response # <<>>
                            THEN Append(history, AssistantMessage(response))
                            ELSE kept,
                            <<AssistantMessage(stream.fragments)>>, FALSE)
               [] stream.end = "abandon" -> Handled(kept, streamed, TRUE)
               [] OTHER ->
                    Handled(kept,
                            streamed \o <<AssistantMessage(<<ChainlitError, "e">>)>>,
                            FALSE)

\* chainlit_app.main(message): a command is handled apart, a message without
\* a selected agent is turned down, anything else goes to the agent, trimmed.
main(message, messages, selected, found, stream) ==
    LET content == strip(message)
    IN  IF startswith(content, "/")
        THEN Handled(messages, <<AssistantMessage(<<"command">>)>>, FALSE)
        ELSE IF ~selected
        THEN Handled(messages, <<AssistantMessage(<<ChainlitNoAgent>>)>>, FALSE)
        ELSE process_with_agent(content, messages, found, stream)

render_messages_all(messages) == messages

\* AgentPage.render, the display loop: every message but the system ones.
NotSystem(message) == message.role # "system"
render_messages(messages) == SelectSeq(messages, NotSystem)

RerunPopped_last(messages) == SubSeq(messages, 1, Len(messages) - 1)

\* _add_control_buttons, the rerun button: the messages left once the last
\* message is popped, and the one before it when the last was no user message.
RerunPopped(messages) ==
    IF messages[Len(messages)].role # "user"
    THEN SubSeq(messages, 1, Len(messages) - 2)
    ELSE SubSeq(messages, 1, Len(messages) - 1)

\* The message whose content the rerun button sends again.
RerunMessage(messages) == messages[Len(RerunPopped(messages)) + 1]

SessionInit ==
    /\ ui \in {"streamlit", "core", "chainlit"}
    /\ conversation = IF ui = "chainlit" THEN <<>> ELSE PageSystemMessages
    /\ displayed = <<>>
    /\ last_op = "-"
    /\ last_input = None
    /\ last_stream = NoStream
    /\ raised = FALSE
    /\ ops = 0

\* A script run of the page with nothing entered and no button pressed.
render ==
    /\ ui = "streamlit" /\ ops < MaxOps
    /\ displayed' = render_messages(conversation)
    /\ last_op' = "view" /\ last_input' = None /\ last_stream' = NoStream
    /\ raised' = FALSE
    /\ ops' = ops + 1
    /\ UNCHANGED <<ui, conversation>>
    /\ UNCHANGED notSession

\* A script run of the page with a prompt entered in the chat input.
\* handle_chat_prompt is given the page where it takes the message list; the
\* list it works on here is page["messages"].
render_prompt ==
    /\ ui = "streamlit" /\ ops < MaxOps
    /\ \E prompt \in UserInputs, stream \in Streams :
           LET result == handle_chat_prompt(prompt, conversation, stream)
           IN  /\ conversation' = result.messages
               /\ displayed' = render_messages(conversation) \o result.shown
               /\ raised' = result.raised
               /\ last_input' = prompt
               /\ last_stream' = stream
    /\ last_op' = "prompt"
    /\ ops' = ops + 1
    /\ UNCHANGED ui
    /\ UNCHANGED notSession

\* A script run of the page with the rerun button pressed.
render_rerun ==
    /\ ui = "streamlit" /\ ops < MaxOps
    /\ LET msg_count == Len(render_messages(conversation))
       IN  IF msg_count > 0
           THEN \E stream \in Streams :
                    LET result == handle_chat_prompt(RerunMessage(conversation).content,
                                                     RerunPopped(conversation), stream)
                    IN  /\ conversation' = result.messages
                        /\ displayed' = render_messages(conversation) \o result.shown
                        /\ raised' = result.raised
                        /\ last_stream' = stream
           ELSE /\ UNCHANGED conversation
                /\ displayed' = render_messages(conversation)
                /\ raised' = FALSE
                /\ last_stream' = NoStream
    /\ last_op' = "rerun" /\ last_input' = None
    /\ ops' = ops + 1
    /\ UNCHANGED ui
    /\ UNCHANGED notSession

\* A script run of the page with the reset button pressed: _reset_chat, and
\* the script run st.rerun() starts.
render_reset ==
    /\ ui = "streamlit" /\ ops < MaxOps
    /\ conversation' = PageSystemMessages
    /\ displayed' = render_messages(PageSystemMessages)
    /\ last_op' = "reset" /\ last_input' = None /\ last_stream' = NoStream
    /\ raised' = FALSE
    /\ ops' = ops + 1
    /\ UNCHANGED ui
    /\ UNCHANGED notSession

\* One call of AgentCore.handle_chat_prompt on the page.
core_prompt ==
    /\ ui = "core" /\ ops < MaxOps
    /\ \E prompt \in UserInputs, stream \in Streams :
           LET result == AgentCore_handle_chat_prompt(prompt, conversation, stream)
           IN  /\ conversation' = result.messages
               /\ displayed' = displayed \o result.shown
               /\ raised' = result.raised
               /\ last_input' = prompt
               /\ last_stream' = stream
    /\ last_op' = "prompt"
    /\ ops' = ops + 1
    /\ UNCHANGED ui
    /\ UNCHANGED notSession

\* One message of an authenticated user to the Chainlit application.
on_message ==
    /\ ui = "chainlit" /\ ops < MaxOps
    /\ \E message \in UserInputs, selected \in BOOLEAN, found \in BOOLEAN,
          stream \in Streams :
           LET result == main(message, conversation, selected, found, stream)
           IN  /\ conversation' = result.messages
               /\ displayed' = displayed \o result.shown
               /\ raised' = result.raised
               /\ last_input' = message
               /\ last_stream' =
                      IF startswith(strip(message), "/") \/ ~selected \/ ~found
                      THEN NoStream ELSE stream
    /\ last_op' = "prompt"
    /\ ops' = ops + 1
    /\ UNCHANGED ui
    /\ UNCHANGED notSession

SessionNext ==
    \/ render
    \/ render_prompt
    \/ render_rerun
    \/ render_reset
    \/ core_prompt
    \/ on_message

\* ------------------------------------------------- Chainlit application

\* Most events in one run of the application.
MaxEvents == 4

\* The sessions of two users connected at a time.
Sessions == {1, 2}

\* A page of a section of pages.yaml.
AgentPage(key, admin_only, default) ==
    [type |-> "agent", agent |-> key, admin_only |-> admin_only, default |-> default]
OtherPage == [type |-> "page", agent |-> "-", admin_only |-> FALSE, default |-> FALSE]

\* The pages of pages.yaml, section after section: agent "b" is for admins
\* only; the default agent is the open one, or the one for admins, or none.
PagesConfigs ==
    {<<AgentPage("a", FALSE, TRUE), OtherPage, AgentPage("b", TRUE, FALSE)>>,
     <<AgentPage("b", TRUE, TRUE), AgentPage("a", FALSE, FALSE)>>,
     <<AgentPage("b", TRUE, FALSE)>>}

\* The roles of a user of auth-config.yaml.
UserRoles == {<<"user">>, <<"admin", "user">>}

\* x in l, for a list l.
InList(x, l) == \E i \in 1..Len(l) : l[i] = x

\* The keys of a dict kept as the sequence of its items.
DictKeys(d) == {d[i].key : i \in 1..Len(d)}

\* d[key] = value: the item of the key is replaced where it is, or added last.
DictSet(d, key, value) ==
    IF key \in DictKeys(d)
    THEN [i \in 1..Len(d) |-> IF d[i].key = key THEN [key |-> key, default |-> value]
                                ELSE d[i]]
    ELSE Append(d, [key |-> key, default |-> value])

\* get_available_agents, the loop over the pages.
RECURSIVE AvailableFrom(_, _, _)
AvailableFrom(pages, is_admin, available) ==
    IF pages = <<>> THEN available
    ELSE LET page_config == Head(pages)
         IN  IF page_config.type = "agent" /\ ~(page_config.admin_only /\ ~is_admin)
             THEN AvailableFrom(Tail(pages), is_admin,
                                DictSet(available, TextOf(page_config.agent),
                                        page_config.default))
             ELSE AvailableFrom(Tail(pages), is_admin, available)

get_available_agents_all(pages, user_roles) == AvailableFrom(pages, TRUE, <<>>)

\* ChainlitAgentManager.get_available_agents(user_roles)
get_available_agents(pages, user_roles) ==
    AvailableFrom(pages, InList("admin", user_roles), <<>>)

\* start, the loop over the available agents: the current agent is the last
\* default one, if there is one.
RECURSIVE DefaultFrom(_, _)
DefaultFrom(available, current) ==
    IF available = <<>> THEN current
    ELSE DefaultFrom(Tail(available),
                     IF Head(available).default THEN Head(available).key ELSE current)

\* str.split(): the words of s, whitespace between them dropped.
RECURSIVE WordsFrom(_, _)
WordsFrom(s, word) ==
    IF s = <<>> THEN (IF word = <<>> THEN <<>> ELSE <<word>>)
    ELSE IF Head(s) \in Whitespace
         THEN (IF word = <<>> THEN <<>> ELSE <<word>>) \o WordsFrom(Tail(s), <<>>)
         ELSE WordsFrom(Tail(s), Append(word, Head(s)))

words(s) == WordsFrom(s, <<>>)

\* A /switch that starts the new agent on an empty history.
handle_command_resets(command, available, current, history) ==
    LET parts == words(Tail(command))
        cmd == IF parts # <<>> THEN lower(parts[1]) ELSE <<>>
    IN  IF cmd = <<"switch">> /\ Len(parts) >= 2 /\ parts[2] \in DictKeys(available)
        THEN [current |-> parts[2], history |-> <<>>]
        ELSE IF cmd = <<"clear">> THEN [current |-> None, history |-> history]
        ELSE [current |-> current, history |-> history]

\* handle_command(command, user): what it leaves of the session's current agent
\* and conversation history. /switch with an available key selects it, /clear
\* unselects the agent, every other command only sends a message.
handle_command(command, available, current, history) ==
    LET parts == words(Tail(command))
        cmd == IF parts # <<>> THEN lower(parts[1]) ELSE <<>>
    IN  IF cmd = <<"switch">> /\ Len(parts) >= 2 /\ parts[2] \in DictKeys(available)
        THEN [current |-> parts[2], history |-> history]
        ELSE IF cmd = <<"clear">> THEN [current |-> None, history |-> history]
        ELSE [current |-> current, history |-> history]

\* What the user of a session types: a message, or a command.
SessionInput(session) == <<IF session = 1 THEN "u1" ELSE "u2">>

Commands ==
    {<<"/", "help">>, <<"/", "list">>, <<"/", "current">>, <<"/", "clear">>,
     <<"/", "switch">>, <<"/", "switch", " ", "a">>, <<"/", "switch", " ", "b">>,
     <<"/", "switch", " ", "zz">>, <<"/", "x">>, <<"/">>}

\* What the chat client streams in a turn of the application.
ChainlitStreams == {stream \in Streams : stream.fragments \in {<<>>, <<"f">>}}

\* The metadata of a resumed thread: without a conversation history, or with
\* one.
ThreadMetadata ==
    {[has_history |-> FALSE, conversation_history |-> <<>>],
     [has_history |-> TRUE, conversation_history |-> <<>>],
     [has_history |-> TRUE,
      conversation_history |-> <<UserMessage(<<"old">>), AssistantMessage(<<"f">>)>>]}

\* The arguments the agent of the key has _create_llm and load_prompt_files
\* called with: every definition has a temperature and a persona of its own,
\* named here by its key.
LlmArguments(keyText) == <<"endpoint", "api_version", "gpt-4o", keyText, "None">>
PromptArguments(keyText) == <<keyText, "None">>

user_session_set_all(store, session, value) == [other \in DOMAIN store |-> value]

\* cl.user_session.set(key, value) in the context of a session: the value the
\* key has there, the store holding the key's value for every session.
user_session_set(store, session, value) == [store EXCEPT ![session] = value]

NoEvent ==
    [session |-> 0, op |-> "-", input |-> None, agent |-> None, sent |-> <<>>,
     stream |-> NoStream]

ChainlitInit ==
    /\ pages_config \in PagesConfigs
    /\ registry \in {[k \in Keys |-> {"react_persona"}], [k \in {"b"} |-> {"react_persona"}]}
    /\ cs_user \in [{1} -> UserRoles \cup {None}]
    /\ cs_available = [session \in DOMAIN cs_user |-> <<>>]
    /\ cs_current = [session \in DOMAIN cs_user |-> None]
    /\ cs_history = [session \in DOMAIN cs_user |-> <<>>]
    /\ llm_cache = {}
    /\ prompt_cache = {}
    /\ cs_started = {}
    /\ cs_last = NoEvent
    /\ cs_events = 0

\* Two users connected to the application at a time.
SessionsInit ==
    /\ pages_config = <<AgentPage("a", FALSE, TRUE), AgentPage("b", TRUE, TRUE)>>
    /\ registry = [k \in Keys |-> {"react_persona"}]
    /\ cs_user \in [Sessions -> UserRoles]
    /\ cs_available = [session \in DOMAIN cs_user |-> <<>>]
    /\ cs_current = [session \in DOMAIN cs_user |-> None]
    /\ cs_history = [session \in DOMAIN cs_user |-> <<>>]
    /\ llm_cache = {}
    /\ prompt_cache = {}
    /\ cs_started = {}
    /\ cs_last = NoEvent
    /\ cs_events = 0

\* @cl.on_chat_start, in a session that begins.
start(session) ==
    /\ cs_events < MaxEvents /\ session \notin cs_started
    /\ LET user_roles == cs_user[session]
           available_agents == get_available_agents(pages_config, user_roles)
       IN  IF user_roles = None \/ available_agents = <<>>
           THEN UNCHANGED <<cs_available, cs_current>>
           ELSE /\ cs_current' =
                       user_session_set(cs_current, session,
                                        DefaultFrom(available_agents, cs_current[session]))
                /\ cs_available' =
                       user_session_set(cs_available, session, available_agents)
    /\ cs_started' = cs_started \cup {session}
    /\ cs_last' = [NoEvent EXCEPT !.session = session, !.op = "start"]
    /\ cs_events' = cs_events + 1
    /\ UNCHANGED <<pages_config, cs_user, cs_history, llm_cache, prompt_cache, registry>>
    /\ UNCHANGED notChainlit

\* @cl.on_chat_resume, in a session that resumes a thread.
on_chat_resume(session, metadata) ==
    /\ cs_events < MaxEvents /\ session \notin cs_started
    /\ LET user_roles == cs_user[session]
       IN  IF user_roles = None
           THEN UNCHANGED <<cs_available, cs_history>>
           ELSE /\ cs_available' =
                       user_session_set(cs_available, session,
                                        get_available_agents(pages_config, user_roles))
                /\ cs_history' =
                       IF metadata.has_history
                       THEN user_session_set(cs_history, session,
                                             metadata.conversation_history)
                       ELSE cs_history
    /\ cs_started' = cs_started \cup {session}
    /\ cs_last' = [NoEvent EXCEPT !.session = session, !.op = "resume"]
    /\ cs_events' = cs_events + 1
    /\ UNCHANGED <<pages_config, cs_user, cs_current, llm_cache, prompt_cache, registry>>
    /\ UNCHANGED notChainlit

\* @cl.on_message main(message), in a session that has begun: a command, a
\* message turned down, or a turn of the current agent.
main_message(session, message, stream) ==
    /\ cs_events < MaxEvents /\ session \in cs_started
    /\ LET content == strip(message)
           available_agents == cs_available[session]
           current_agent_key == cs_current[session]
           agent == get_agent(registry, current_agent_key)
           turn == process_with_agent(content, cs_history[session],
                                      agent.outcome = "agent",
                                      IF agent.outcome = "raise"
                                      THEN [fragments |-> <<>>, end |-> "raise"]
                                      ELSE stream)
           event == [NoEvent EXCEPT !.session = session, !.input = message]
       IN  IF cs_user[session] = None
           THEN /\ cs_last' = [event EXCEPT !.op = "refused"]
                /\ UNCHANGED <<cs_current, cs_history, llm_cache, prompt_cache>>
           ELSE IF startswith(content, "/")
           THEN LET left == handle_command(content, available_agents,
                                           current_agent_key, cs_history[session])
                IN  /\ cs_current' = user_session_set(cs_current, session, left.current)
                    /\ cs_history' = user_session_set(cs_history, session, left.history)
                    /\ cs_last' = [event EXCEPT !.op = "command"]
                    /\ UNCHANGED <<llm_cache, prompt_cache>>
           ELSE IF current_agent_key = None
           THEN /\ cs_last' = [event EXCEPT !.op = "refused"]
                /\ UNCHANGED <<cs_current, cs_history, llm_cache, prompt_cache>>
           ELSE /\ cs_history' = user_session_set(cs_history, session, turn.messages)
                /\ IF agent.outcome = "agent"
                   THEN /\ cs_last' =
                               [event EXCEPT !.op = "turn", !.agent = current_agent_key,
                                             !.sent = Append(cs_history[session],
                                                             UserMessage(content)),
                                             !.stream = stream]
                        /\ prompt_cache' =
                               prompt_cache \cup {PromptArguments(current_agent_key)}
                        /\ llm_cache' =
                               IF stream.end = "raise" THEN llm_cache
                               ELSE llm_cache \cup {LlmArguments(current_agent_key)}
                   ELSE /\ cs_last' = [event EXCEPT !.op = "turn"]
                        /\ UNCHANGED <<llm_cache, prompt_cache>>
                /\ UNCHANGED cs_current
    /\ cs_events' = cs_events + 1
    /\ UNCHANGED <<pages_config, cs_user, cs_available, cs_started, registry>>
    /\ UNCHANGED notChainlit

\* A session begins.
chat_start == \E session \in DOMAIN cs_user : start(session)

\* A session resumes a thread.
chat_resume ==
    \E session \in DOMAIN cs_user, metadata \in ThreadMetadata :
        on_chat_resume(session, metadata)

\* A user sends a message or a command.
message_or_command ==
    \E session \in DOMAIN cs_user, stream \in ChainlitStreams :
        \E message \in Commands \cup {SessionInput(session)} :
            main_message(session, message, stream)

\* A user sends a message.
user_message ==
    \E session \in DOMAIN cs_user, stream \in ChainlitStreams :
        main_message(session, SessionInput(session), stream)

\* One session: every event, with every input.
ChainlitNext == chat_start \/ chat_resume \/ message_or_command

\* Sessions side by side: their users' messages, in any order.
SessionsNext == chat_start \/ user_message

\* ------------------------------------------------------------ count_tokens

\* Most messages in a list to count.
MaxMessages == 2

\* A message to count: its role and its content, and a name in some.
CountedMessages ==
    [role : {"system", "user", "assistant"}, content : TextsUpTo({"t"}, 2)]
        \cup [role : {"user"}, content : {<<"t">>}, name : {"n"}]

\* len(encoding.encode(str(value))) for the value of a key of a message: the
\* tokens of the content; one token for a role or a name.
EncodedLength(m, key) == IF key = "content" THEN Len(m[key]) ELSE 1

\* for _, value in message.items(): num_tokens += len(encoding.encode(str(value)))
RECURSIVE ValuesTokens(_, _)
ValuesTokens(m, keys) ==
    IF keys = {} THEN 0
    ELSE LET key == CHOOSE k \in keys : TRUE
         IN  EncodedLength(m, key) + ValuesTokens(m, keys \ {key})

\* for message in messages: num_tokens += 4, and the tokens of its values.
RECURSIVE MessagesTokens(_, _)
MessagesTokens(messages, num_tokens) ==
    IF messages = <<>> THEN num_tokens
    ELSE MessagesTokens(Tail(messages),
                        num_tokens + 4
                            + ValuesTokens(Head(messages), DOMAIN Head(messages)))

count_tokens_unprimed(messages) == MessagesTokens(messages, 0)

\* utils.openai_utils.count_tokens(messages)
count_tokens(messages) == MessagesTokens(messages, 0) + 2

\* agent_core.count_tokens(messages)
AgentCore_count_tokens(messages) == MessagesTokens(messages, 0) + 2

TokensInit ==
    /\ tk_messages \in SeqsUpTo(CountedMessages, MaxMessages)
    /\ tk_by = "-"
    /\ tk_count = 0

\* handle_chat_prompt counts the input tokens of its messages.
CountTokens ==
    /\ tk_by = "-"
    /\ tk_count' = count_tokens(tk_messages)
    /\ tk_by' = "openai_utils"
    /\ UNCHANGED tk_messages
    /\ UNCHANGED notTokens

\* AgentCore.handle_chat_prompt counts the input tokens of the page's messages.
CoreCountTokens ==
    /\ tk_by = "-"
    /\ tk_count' = AgentCore_count_tokens(tk_messages)
    /\ tk_by' = "agent_core"
    /\ UNCHANGED tk_messages
    /\ UNCHANGED notTokens

TokensNext == CountTokens \/ CoreCountTokens

\* ------------------------------------------------------------ auth_callback

\* Most calls of auth_callback followed.
MaxLogins == 2

\* The usernames of the credentials file, in the order yaml.dump writes them.
Usernames == <<"u", "v">>

\* A stored password: the text itself, or a bcrypt hash of it ("$2b$...").
StoredPasswords == [hashed : BOOLEAN, text : {"p", "q", "admin"}]

\* The record of a user under credentials.usernames, with its key.
UserRecords ==
    [username : {Usernames[i] : i \in 1..Len(Usernames)},
     password : StoredPasswords,
     roles : UserRoles,
     email : {"u@", "v@"}]

\* The credentials files: every user once, with that user's email.
CredentialFiles ==
    {file \in SeqsUpTo(UserRecords, Len(Usernames)) :
        /\ file # <<>>
        /\ \A i, j \in 1..Len(file) : file[i].username = file[j].username => i = j
        /\ \A i \in 1..Len(file) : file[i].email = file[i].username \o "@"}

\* What a user types at the login form.
LoginNames == {"u", "v", "w"}
LoginPasswords == {"p", "q", "admin"}

\* bcrypt.hashpw(text, gensalt())
hashpw(text) == [hashed |-> TRUE, text |-> text]

\* bcrypt.checkpw(password, stored_password)
checkpw(password, stored_password) ==
    stored_password.hashed /\ stored_password.text = password

\* password == stored_password, for a typed password that is no hash string.
SameString(password, stored_password) ==
    ~stored_password.hashed /\ stored_password.text = password

\* cl.User(identifier=username, metadata={... user_data ...})
User(username, user_data) ==
    [identifier |-> username, roles |-> user_data.roles, email |-> user_data.email]

\* auth_callback returns None.
NoUser == [identifier |-> "-", roles |-> <<>>, email |-> "-"]

\* auth_callback, the loop over credentials.items(): it hashes the passwords
\* that are not hashed, and binds user_data and stored_password to each user in
\* turn.
RECURSIVE HashLoop(_, _, _, _, _)
HashLoop(items, credentials, user_data, stored_password, modified) ==
    IF items = <<>>
    THEN [credentials |-> credentials, user_data |-> user_data,
          stored_password |-> stored_password, modified |-> modified]
    ELSE LET item == Head(items)
             hashed_user == [item EXCEPT !.password = hashpw(item.password.text)]
         IN  IF ~item.password.hashed
             THEN HashLoop(Tail(items), Append(credentials, hashed_user),
                           hashed_user, item.password, TRUE)
             ELSE HashLoop(Tail(items), Append(credentials, item),
                           item, item.password, modified)

\* yaml.dump(config, file): the users are written in the order of their keys.
RECURSIVE yaml_dump(_, _)
yaml_dump(names, credentials) ==
    IF names = <<>> THEN <<>>
    ELSE SelectSeq(credentials, LAMBDA user : user.username = Head(names))
             \o yaml_dump(Tail(names), credentials)

\* auth_callback, the plain-text branch: if password == "admin" or
\* password == stored_password
password_matches(password, stored_password) ==
    password = "admin" \/ SameString(password, stored_password)

\* auth_callback(username, password) on a credentials file: the user returned
\* and the file left behind.
auth_callback(config, username, password) ==
    IF ~\E i \in 1..Len(config) : config[i].username = username
    THEN [user |-> NoUser, file |-> config]
    ELSE LET user_data == config[CHOOSE i \in 1..Len(config) :
                                     config[i].username = username]
             stored_password == user_data.password
             loop == HashLoop(config, <<>>, user_data, stored_password, FALSE)
         IN  IF stored_password.hashed
             THEN [user |-> IF checkpw(password, stored_password)
                            THEN User(username, user_data) ELSE NoUser,
                   file |-> config]
             ELSE [user |-> IF password_matches(password, loop.stored_password)
                            THEN User(username, loop.user_data) ELSE NoUser,
                   file |-> IF loop.modified
                            THEN yaml_dump(Usernames, loop.credentials)
                            ELSE config]

NoLogin == [username |-> "-", password |-> "-", before |-> <<>>, user |-> NoUser]

AuthInit ==
    /\ auth_file \in CredentialFiles
    /\ auth_last = NoLogin
    /\ auth_logins = 0

\* A login: Chainlit calls auth_callback with what the user typed.
login ==
    /\ auth_logins < MaxLogins
    /\ \E username \in LoginNames, password \in LoginPasswords :
          LET called == auth_callback(auth_file, username, password)
          IN  /\ auth_file' = called.file
              /\ auth_last' = [username |-> username, password |-> password,
                               before |-> auth_file, user |-> called.user]
    /\ auth_logins' = auth_logins + 1
    /\ UNCHANGED notAuth

AuthNext == login

\* ------------------------------------------------------- specifications

AuthIdle ==
    /\ auth_file = <<>>
    /\ auth_last = NoLogin
    /\ auth_logins = MaxLogins

TokensIdle ==
    /\ tk_messages = <<>>
    /\ tk_by = "idle"
    /\ tk_count = 0

ChainlitIdle ==
    /\ pages_config = <<>>
    /\ cs_user = <<>>
    /\ cs_available = <<>>
    /\ cs_current = <<>>
    /\ cs_history = <<>>
    /\ llm_cache = {}
    /\ prompt_cache = {}
    /\ cs_started = {}
    /\ cs_last = NoEvent
    /\ cs_events = MaxEvents

SessionIdle ==
    /\ ui = "streamlit"
    /\ conversation = <<>>
    /\ displayed = <<>>
    /\ last_op = "-"
    /\ last_input = None
    /\ last_stream = NoStream
    /\ raised = FALSE
    /\ ops = MaxOps

PromptsIdle ==
    /\ readable = {}
    /\ pl_definition = [kind |-> "persona", personas |-> <<"p1">>,
                        documents |-> NoDocuments]
    /\ pl_documents = NoDocuments
    /\ pl_agent = "-"
    /\ pl_prompts = None
    /\ pl_pc = "raised"
    /\ pl_error = "-"

\* A component no run is made of.
ReactIdle ==
    /\ max_iterations = 0
    /\ react_messages = <<>>
    /\ thought = None
    /\ action = None
    /\ observation = None
    /\ iteration_count = 0
    /\ react_pc = END
    /\ thinkSteps = 0
    /\ respondSteps = 0

RegistryIdle ==
    /\ reg_key = "a"
    /\ reg_by = "-"
    /\ reg_result = NoResult

GraphIdle ==
    /\ graph_agents = <<>>
    /\ graph_chain = None
    /\ graph_messages = <<>>
    /\ routing_reply = [type |-> "str", text |-> <<>>, parts |-> <<>>]
    /\ graph_input = None
    /\ decision = None
    /\ graph_output = None
    /\ graph_pc = END
    /\ graph_error = "-"
    /\ invoked = None
    /\ invoked_messages = <<>>
    /\ startCalls = 0

SupervisorIdle ==
    /\ sup_workers = <<>>
    /\ sup_messages = <<>>
    /\ worker_messages = None
    /\ sup_response = None
    /\ next_worker = None
    /\ worker_response = None
    /\ delegation_reason = None
    /\ sup_pc = END
    /\ sup_error = "-"
    /\ supervisorRuns = 0
    /\ workerRuns = 0

\* One run of a ReactAgent's workflow.
InitReact ==
    /\ ReactInit /\ registry = <<>>
    /\ RegistryIdle /\ GraphIdle /\ SupervisorIdle /\ PromptsIdle
    /\ SessionIdle
    /\ ChainlitIdle
    /\ TokensIdle
    /\ AuthIdle
SpecReact == InitReact /\ [][ReactNext]_vars

\* The workflow executor runs the next node whenever there is one.
FairSpecReact == SpecReact /\ WF_vars(ReactNext)

\* One lookup in an agent registry.
InitRegistry ==
    RegistryInit /\ ReactIdle /\ GraphIdle /\ SupervisorIdle /\ PromptsIdle
    /\ SessionIdle
    /\ ChainlitIdle
    /\ TokensIdle
    /\ AuthIdle
SpecRegistry == InitRegistry /\ [][RegistryNext]_vars

\* One turn of a GraphAgent.
InitGraph ==
    GraphInit /\ ReactIdle /\ RegistryIdle /\ SupervisorIdle /\ PromptsIdle
    /\ SessionIdle
    /\ ChainlitIdle
    /\ TokensIdle
    /\ AuthIdle
SpecGraph == InitGraph /\ [][GraphNext]_vars

\* One turn of a SupervisorAgent.
InitSupervisor ==
    SupervisorInit /\ ReactIdle /\ RegistryIdle /\ GraphIdle /\ PromptsIdle
    /\ SessionIdle
    /\ ChainlitIdle
    /\ TokensIdle
    /\ AuthIdle
SpecSupervisor == InitSupervisor /\ [][SupervisorNext]_vars

\* Building one persona agent and loading its system messages.
InitPrompts ==
    /\ PromptsInit /\ registry = <<>>
    /\ ReactIdle /\ RegistryIdle /\ GraphIdle /\ SupervisorIdle /\ SessionIdle
    /\ ChainlitIdle
    /\ TokensIdle
    /\ AuthIdle
SpecPrompts == InitPrompts /\ [][PromptsNext]_vars

\* One chat session of a front end.
InitSession ==
    /\ SessionInit /\ registry = <<>>
    /\ ReactIdle /\ RegistryIdle /\ GraphIdle /\ SupervisorIdle /\ PromptsIdle
    /\ ChainlitIdle
    /\ TokensIdle
    /\ AuthIdle
SpecSession == InitSession /\ [][SessionNext]_vars

\* One session of the Chainlit application.
InitChainlit ==
    /\ ChainlitInit
    /\ ReactIdle /\ RegistryIdle /\ GraphIdle /\ SupervisorIdle /\ PromptsIdle
    /\ SessionIdle
    /\ TokensIdle
    /\ AuthIdle
SpecChainlit == InitChainlit /\ [][ChainlitNext]_vars

\* Two sessions of the Chainlit application.
InitSessions ==
    /\ SessionsInit
    /\ ReactIdle /\ RegistryIdle /\ GraphIdle /\ SupervisorIdle /\ PromptsIdle
    /\ SessionIdle
    /\ TokensIdle
    /\ AuthIdle
SpecSessions == InitSessions /\ [][SessionsNext]_vars

\* One count of the tokens of a message list.
InitTokens ==
    /\ TokensInit /\ registry = <<>>
    /\ ReactIdle /\ RegistryIdle /\ GraphIdle /\ SupervisorIdle /\ PromptsIdle
    /\ SessionIdle /\ ChainlitIdle
    /\ AuthIdle
SpecTokens == InitTokens /\ [][TokensNext]_vars

InitAuth ==
    /\ AuthInit /\ registry = <<>>
    /\ ReactIdle /\ RegistryIdle /\ GraphIdle /\ SupervisorIdle /\ PromptsIdle
    /\ SessionIdle /\ ChainlitIdle /\ TokensIdle
SpecAuth == InitAuth /\ [][AuthNext]_vars

\* ------------------------------------------------------------- claims

\* C1 (as stated): whatever the model replies, once Respond is entered the
\* number of Think steps executed is at most max_iterations, for any N >= 0.
C1_ThinkStepsAtMostN ==
    react_pc \in {"respond", END} => thinkSteps <= max_iterations

\* C2: with max_iterations = 0 the first evaluation of the continue-condition
\* leads from Think to Respond; a Think step is never followed by Think.
C2_ZeroIterationsDirect ==
    [][(max_iterations = 0 /\ react_pc = "think") => react_pc' = "respond"]_vars

C2_Witness ==
    /\ max_iterations = 0
    /\ react_pc = "respond"
    /\ thinkSteps = 1
    /\ iteration_count = 1

\* C3: every run reaches Respond; Respond executes exactly once, the workflow
\* ends right after it, and Think never runs after Respond.
C3_RespondOnceTerminal ==
    /\ <>(react_pc = END /\ respondSteps = 1)
    /\ [](respondSteps <= 1)
    /\ [][react_pc = "respond" => react_pc' = END]_vars
    /\ [][respondSteps >= 1 => thinkSteps' = thinkSteps]_vars

C3_Witness ==
    /\ react_pc = END
    /\ respondSteps = 1
    /\ max_iterations >= 2
    /\ thinkSteps = max_iterations
    /\ Len(react_messages) = 2

\* The key a routing reply names, as the specification words it: the text of the
\* reply (of its first part, for a list), trimmed and lowercased.
ReplyText(reply) ==
    IF reply.type = "str" THEN reply.text
    ELSE IF reply.parts # <<>> THEN reply.parts[1] ELSE <<>>

\* A key under which the registry holds an agent that can be built.
IsAgentKey(keyText) == get_agent(registry, keyText).outcome = "agent"

GraphTurnOver == graph_pc \in {END, "raised"}

\* C4 (as stated): when the routing reply, trimmed and lowercased, is the key of
\* a registry entry, the turn invokes the agent registered under that key, with
\* that agent's system prompts followed by the conversation.
C4_RoutedToDecidedAgent ==
    LET key == lower(strip(ReplyText(routing_reply)))
    IN  (GraphTurnOver /\ IsAgentKey(key)) =>
            /\ invoked = key
            /\ invoked_messages =
                   get_system_prompts(get_agent(registry, key).cls, key)
                       \o graph_messages

\* C5: when the routing decision is no key of the registry, the turn fails with
\* the unknown-key error (the agent node's ValueError, or the router's KeyError),
\* no sub-agent's chain is invoked, and the routing request is made once.
C5_UnknownKeyFails ==
    (decision # None /\ ~RegistryGet(registry, decision).found) =>
        /\ invoked = None
        /\ startCalls = 1
        /\ graph_pc # END
        /\ graph_pc # "raised" => ENABLED agent_node
        /\ graph_pc = "raised" => graph_error \in {"ValueError", "KeyError"}

C5_Witness ==
    /\ decision = <<"a">>
    /\ ~RegistryGet(registry, decision).found
    /\ decision \in DOMAIN graph_chain
    /\ graph_pc = "raised"
    /\ graph_error = "ValueError"
    /\ invoked = None
    /\ startCalls = 1

\* C6 (as stated): the decision is the first line of the reply's text, lowercased
\* and trimmed; what follows the first line takes no part in it.
C6_DecisionIsFirstLine ==
    decision # None =>
        decision = lower(strip(split(strip(ReplyText(routing_reply)))[1]))

\* C6 (amended): the decision is the whole text of the reply (of its first part,
\* for a list), with leading and trailing whitespace removed and every letter
\* lowercased; line breaks inside the reply stay in the decision.
C6_DecisionIsWholeReply ==
    decision # None =>
        LET t == ReplyText(routing_reply)
        IN  \E i \in 1..(Len(t) + 1) : \E j \in 0..Len(t) :
               /\ i <= j + 1
               /\ \A k \in 1..(i - 1) : t[k] \in Whitespace
               /\ \A k \in (j + 1)..Len(t) : t[k] \in Whitespace
               /\ i <= j => (t[i] \notin Whitespace /\ t[j] \notin Whitespace)
               /\ Len(decision) = j - i + 1
               /\ \A k \in 1..Len(decision) :
                      /\ decision[k] \notin {"A", "B"}
                      /\ decision[k] = t[i + k - 1]
                            \/ (decision[k] = "a" /\ t[i + k - 1] = "A")
                            \/ (decision[k] = "b" /\ t[i + k - 1] = "B")

C6_Witness ==
    /\ routing_reply.type = "str"
    /\ routing_reply.text = <<"a", NL, "B">>
    /\ decision = <<"a", NL, "b">>

\* The decision reply named one of the supervisor's workers.
Listed(workerText) == \E w \in WorkerSet(sup_workers) : TextOf(w) = workerText

\* The decision step has just read a reply that has a WORKER: line / has none.
HasWorkerLine ==
    \E i \in 1..Len(sup_response) :
        /\ sup_response[i] = "WORKER:"
        /\ \/ \A k \in 1..(i - 1) : sup_response[k] \in Whitespace
           \/ i > 1 /\ sup_response[i - 1] = NL

DecisionTaken == sup_response # None /\ sup_pc # "supervisor"

\* C7 (as stated): a decision step that returns WORKER: END is followed by no
\* worker node, and the turn ends normally.
C7_EndMeansNoDelegation ==
    (DecisionTaken /\ supervisorRuns = 1 /\ HasWorkerLine
         /\ next_worker = <<"END">>) =>
        /\ workerRuns = 0
        /\ sup_pc = END
        /\ sup_error = "-"

\* C8 (as stated): a decision reply that names a worker outside the list, or has
\* no WORKER: line, stops the turn as END does: no further delegation, no error.
C8_UnrecognizedTreatedAsEnd ==
    (DecisionTaken /\ sup_error \in {"-", "KeyError"}
         /\ \/ ~HasWorkerLine
            \/ next_worker # <<"END">> /\ ~Listed(next_worker)) =>
        /\ sup_pc = END
        /\ sup_error = "-"

\* C9 (as stated): a worker step whose key cannot be resolved to an agent appends
\* the inline error as an assistant message and returns to the supervisor step;
\* no exception leaves the turn.
C9_UnresolvedWorkerInlineError ==
    [][(sup_pc \in WorkerSet(sup_workers) /\ ~IsAgentKey(next_worker)) =>
          /\ sup_pc' = "supervisor"
          /\ sup_error' = "-"
          /\ Len(sup_messages') = Len(sup_messages) + 1
          /\ sup_messages'[Len(sup_messages')].role = "assistant"]_vars

\* The variant the specification's precedence gives a definition, "-" if none.
ExpectedVariant(config) ==
    IF "persona" \in config THEN "SingleAgent"
    ELSE IF "personas" \in config THEN "MultiAgent"
    ELSE IF "condition" \in config THEN "GraphAgent"
    ELSE IF "workers" \in config /\ "delegation_prompt" \in config
         THEN "SupervisorAgent"
    ELSE IF "react_persona" \in config THEN "ReactAgent"
    ELSE "-"

\* C10 (as stated): get_agent builds the variant the fields of the definition
\* select, the earliest of persona, personas, condition, workers with
\* delegation_prompt, react_persona winning.
C10_VariantPrecedence ==
    LET e == RegistryGet(registry, TextOf(reg_key))
    IN  (reg_by = "agents" /\ e.found /\ ExpectedVariant(e.config) # "-") =>
            reg_result = ReturnAgent(ExpectedVariant(e.config))

\* C11 (as stated): for a key the registry holds with a definition that matches
\* no variant, get_agent raises the configuration error: it returns neither an
\* agent nor None.
C11_NoVariantIsConfigError ==
    LET e == RegistryGet(registry, TextOf(reg_key))
    IN  (reg_by = "agents" /\ e.found /\ ExpectedVariant(e.config) = "-") =>
            reg_result = Raise("ValueError")

\* C12 (as stated): for a definition with a persona, get_agent returns a
\* SingleAgent whose first system prompt has role system and starts with the
\* persona's text.
C12_PersonaGivesUsableSingleAgent ==
    LET e == RegistryGet(registry, TextOf(reg_key))
    IN  (reg_by = "agents" /\ e.found /\ e.config = {"persona"}) =>
            /\ reg_result.outcome = "agent"
            /\ reg_result.cls = "SingleAgent"
            /\ LET prompts == get_system_prompts(reg_result.cls, TextOf(reg_key))
               IN  /\ prompts # <<>>
                   /\ prompts[1].role = "system"
                   /\ SubSeq(prompts[1].content, 1, 2) = <<"persona:", reg_key>>

\* The documents a definition lists, in its order.
DefinedDocuments == pl_definition.documents.paths

\* A message that wraps the text of file f in <documents>...</documents>.
WrapsDocument(message, f) ==
    /\ message.role = "system"
    /\ strip(message.content) = <<"<documents>">> \o FileText(f) \o <<"</documents>">>

\* A message that starts with the text of persona file f.
StartsWithPersona(message, f) ==
    /\ message.role = "system"
    /\ Len(message.content) >= Len(FileText(f))
    /\ SubSeq(message.content, 1, Len(FileText(f))) = FileText(f)

\* C13 (as stated): the system prompts of a SingleAgent built through the
\* registry from persona P and documents D are the persona message, then one
\* message per document of D, wrapped in <documents>, in the order of D.
C13_SingleAgentPromptsInOrder ==
    (/\ pl_definition.kind = "persona"
     /\ pl_pc \in {"loaded", "raised"}
     /\ readable = PersonaFiles \cup DocumentFiles) =>
        /\ pl_pc = "loaded"
        /\ Len(pl_prompts) = 1 + Len(DefinedDocuments)
        /\ StartsWithPersona(pl_prompts[1], pl_definition.personas[1])
        /\ \A i \in 1..Len(DefinedDocuments) :
               WrapsDocument(pl_prompts[i + 1], DefinedDocuments[i])

\* Persona i of the definition has a document at its position that can be read.
HasDocument(i) == i <= Len(DefinedDocuments) /\ DefinedDocuments[i] \in readable

\* Where the messages of persona i start in the prompts: after one persona
\* message for each earlier persona and one document message for each that has one.
BlockStart(i) == i + Cardinality({k \in 1..(i - 1) : HasDocument(k)})

\* C14: a MultiAgent's system messages are, in persona order, each persona's
\* message followed by the message of the document at the persona's position,
\* when the documents list has that position; a persona beyond the end of the
\* documents list is loaded with no document.
C14_MultiAgentPairsByPosition ==
    (pl_agent = "MultiAgent" /\ pl_pc = "loaded") =>
        LET personas == pl_definition.personas
        IN  /\ Len(pl_prompts) = BlockStart(Len(personas) + 1) - 1
            /\ \A i \in 1..Len(personas) :
                   /\ StartsWithPersona(pl_prompts[BlockStart(i)], personas[i])
                   /\ HasDocument(i) =>
                          WrapsDocument(pl_prompts[BlockStart(i) + 1],
                                        DefinedDocuments[i])

C14_Witness ==
    /\ pl_agent = "MultiAgent"
    /\ pl_pc = "loaded"
    /\ pl_definition.personas = <<"p2", "p1">>
    /\ DefinedDocuments = <<"d2">>
    /\ readable = PersonaFiles \cup DocumentFiles
    /\ Len(pl_prompts) = 3

\* The system messages of the supervising agent itself.
SupervisorOwnPrompts ==
    LET own == get_system_prompts("SupervisorAgent", SupervisorKey)
    IN  {own[i] : i \in 1..Len(own)}

\* C15 (as stated): the messages a worker's chain is invoked with are the
\* worker's own system messages followed by user and assistant turns only: the
\* system messages form a prefix and none of them is another agent's.
C15_OwnSystemPromptsPrefix ==
    worker_messages # None =>
        /\ \A i, j \in 1..Len(worker_messages) :
               (i < j /\ worker_messages[j].role = "system") =>
                   worker_messages[i].role = "system"
        /\ \A i \in 1..Len(worker_messages) :
               worker_messages[i] \notin SupervisorOwnPrompts

IsPrefix(p, q) == Len(p) <= Len(q) /\ SubSeq(q, 1, Len(p)) = p

\* What the rerun button leaves of the conversation: everything before its
\* last user message, or before its last message if that is a user message.
BeforeLastTurn ==
    LET n == Len(conversation)
    IN  SubSeq(conversation, 1, n - (IF conversation[n].role = "user" THEN 1 ELSE 2))

C17_NoSystemMessageDisplayed ==
    \A i \in 1..Len(displayed) : displayed[i].role \in {"user", "assistant"}

\* A page whose conversation starts with system messages has put its history
\* on screen.
C17_Witness ==
    /\ ui = "streamlit" /\ last_op = "view"
    /\ conversation[1].role = "system"
    /\ displayed # <<>>

\* The fixed strings a handler answers a failure with.
FallbackStrings == {StreamlitFallback, EventLoopFallback, CoreFallback, CoreStreamError}

\* The latest operation was a turn in which the chat client failed.
ClientFailed == last_op \in {"prompt", "rerun"} /\ last_stream.end = "error"

\* C18: a turn in which the chat client fails, be it after some fragments,
\* leaves its handler without an exception, and the assistant message it
\* records is the fixed fallback string and nothing else.
C18_FailedTurnRecordsFallback ==
    ClientFailed =>
        /\ ~raised
        /\ conversation # <<>>
        /\ \E fallback \in FallbackStrings :
               conversation[Len(conversation)] = AssistantMessage(<<fallback>>)

\* The latest operation was a turn that ended, after some fragments, before
\* the terminal fragment: the chat client failed or the turn was abandoned.
EndedMidStream ==
    /\ last_op \in {"prompt", "rerun"}
    /\ last_stream.end \in {"error", "abandon"}
    /\ last_stream.fragments # <<>>

\* C19: a turn that is abandoned or fails before the terminal fragment commits
\* no partial assistant message: the conversation does not end with an
\* assistant message that starts with the fragments streamed so far.
C19_NoPartialCommitted ==
    EndedMidStream =>
        ~ /\ conversation # <<>>
          /\ conversation[Len(conversation)].role = "assistant"
          /\ IsPrefix(last_stream.fragments, conversation[Len(conversation)].content)

\* The text has a tag-like substring: a "<", then one or more characters other
\* than ">", then a ">".
TagLike(text) ==
    LET chars == Chars(text)
    IN  \E i, j \in 1..Len(chars) :
            /\ chars[i] = "<" /\ chars[j] = ">" /\ j > i + 1
            /\ \A m \in (i + 1)..(j - 1) : chars[m] # ">"

\* The latest operation handed the user's raw input to an agent.
Forwarded == last_op = "prompt" /\ last_stream # NoStream

\* C20: whenever raw user input is forwarded to an agent, the user message the
\* turn appends to the conversation, the last user message there, is the input
\* embedded in <documents>...</documents> if the input has a tag-like
\* substring, and the input as it is otherwise.
C20_TaggedInputIsWrapped ==
    Forwarded =>
        LET expected == IF TagLike(last_input)
                        THEN <<"<documents>">> \o last_input \o <<"</documents>">>
                        ELSE last_input
            users == {i \in 1..Len(conversation) : conversation[i].role = "user"}
        IN  users # {} =>
                conversation[CHOOSE i \in users : \A k \in users : k <= i].content = expected

\* The messages of a user's own session: what that user typed, and replies.
OwnMessage(session, m) ==
    \/ m.role = "user" /\ m.content = SessionInput(session)
    \/ m.role = "assistant" /\ m.content \in StreamedFragments

\* Every session's history holds messages of that session only, and a turn
\* hands the agent the history of its own session and the new message.
HistoriesApart ==
    /\ \A session \in DOMAIN cs_history' :
           \A i \in 1..Len(cs_history'[session]) :
               OwnMessage(session, cs_history'[session][i])
    /\ \A session \in DOMAIN cs_history' :
           session # cs_last'.session =>
               /\ cs_history'[session] = cs_history[session]
               /\ cs_current'[session] = cs_current[session]
               /\ cs_available'[session] = cs_available[session]
    /\ cs_last'.agent # None =>
           cs_last'.sent = Append(cs_history[cs_last'.session],
                                  UserMessage(SessionInput(cs_last'.session)))

\* C21 as stated: under any interleaving of two sessions' turns a session's
\* history holds only that session's messages, and a turn changes neither the
\* agent definitions nor a cache shared by the sessions.
C21_TurnsChangeNothingShared ==
    [][/\ HistoriesApart
       /\ registry' = registry
       /\ llm_cache' = llm_cache
       /\ prompt_cache' = prompt_cache]_vars

\* C21, amended: a session's history holds only that session's messages and a
\* step of one session leaves the other's alone; a turn never changes the
\* agent definitions; the two process-wide caches, of client handles and of
\* loaded prompt files, only gain entries, and only the one for the arguments
\* of the agent whose turn it is.
C21_SessionsIsolated ==
    [][/\ HistoriesApart
       /\ registry' = registry
       /\ llm_cache \subseteq llm_cache'
       /\ prompt_cache \subseteq prompt_cache'
       /\ llm_cache' \ llm_cache \subseteq {LlmArguments(cs_last'.agent)}
       /\ prompt_cache' \ prompt_cache \subseteq {PromptArguments(cs_last'.agent)}]_vars

\* Both sessions have had a turn of their own with an agent, in some order.
C21_Witness ==
    /\ DOMAIN cs_history = Sessions
    /\ \A session \in Sessions : Len(cs_history[session]) >= 2
    /\ llm_cache # {} /\ prompt_cache # {}

\* C22: once /clear is handled the session's stored conversation history is
\* empty, so that the next turn hands an agent nothing from before it.
C22_ClearEmptiesHistory ==
    (cs_last.op = "command" /\ cs_last.input = <<"/", "clear">>) =>
        cs_history[cs_last.session] = <<>>

\* 4 plus the tokens of every value of the message.
MessageShare(m) ==
    4 + 1 + Len(m.content) + (IF "name" \in DOMAIN m THEN 1 ELSE 0)

\* The shares of the first n messages counted, added up.
RECURSIVE SharesUpTo(_)
SharesUpTo(n) == IF n = 0 THEN 0 ELSE SharesUpTo(n - 1) + MessageShare(tk_messages[n])

\* C23: count_tokens gives 2 plus, for every message, 4 plus the tokens of
\* each of its values: 2 for the empty list, and the count of a list cut in
\* two is the sum of the counts of its parts less 2.
C23_CountTokensSum ==
    tk_by \in {"openai_utils", "agent_core"} =>
        /\ tk_count = 2 + SharesUpTo(Len(tk_messages))
        /\ tk_messages = <<>> => tk_count = 2
        /\ \A k \in 0..Len(tk_messages) :
               tk_count = count_tokens(SubSeq(tk_messages, 1, k))
                          + count_tokens(SubSeq(tk_messages, k + 1, Len(tk_messages)))
                          - 2

\* Two messages were counted, one of them with a name besides its role and
\* content.
C23_Witness ==
    /\ tk_by \in {"openai_utils", "agent_core"}
    /\ Len(tk_messages) = 2
    /\ \E i \in 1..2 : "name" \in DOMAIN tk_messages[i]
    /\ tk_count > 2

\* C24 (as stated, part): a turn ends only at a decision step whose reply
\* names END or no listed worker.
SupervisorEnded(pc) == pc \in {END, "raised"}

DecidedToEnd ==
    /\ sup_pc = "supervisor"
    /\ Supervisor_should_continue(next_worker', sup_workers) = TextOf(END)

CanDelegate ==
    \A w \in WorkerSet(sup_workers) :
        LET parsed == ParseSupervisor(split(strip(<<"WORKER:", " ", w>>)), <<"END">>,
                                      <<"No specific delegation needed">>)
            edge == Route(SupervisorPathMap(sup_workers),
                          Supervisor_should_continue(parsed.next_worker, sup_workers))
        IN  edge.ok /\ edge.node = w

WorkerReplied ==
    /\ sup_pc \in WorkerSet(sup_workers)
    /\ sup_messages' # sup_messages

OpenTo(key, user_roles) ==
    \E i \in 1..Len(pages_config) :
        /\ pages_config[i].type = "agent"
        /\ TextOf(pages_config[i].agent) = key
        /\ pages_config[i].admin_only => InList("admin", user_roles)

\* C25: after any sequence of session events the current agent of a session is
\* unset or an agent the pages configuration offers to the roles of the
\* session's user, and the agent of every processed message is one of these: a
\* user without the admin role never has a message processed by an agent of
\* admin_only pages alone.
C25_CurrentAgentIsAvailable ==
    /\ \A session \in DOMAIN cs_current :
           cs_current[session] # None =>
               OpenTo(cs_current[session], cs_user[session])
    /\ (cs_last.op = "turn" /\ cs_last.agent # None) =>
           OpenTo(cs_last.agent, cs_user[cs_last.session])

\* A user without the admin role, in a configuration with an admin_only
\* agent, has had a message processed after two or more earlier events.
C25_Witness ==
    /\ cs_last.op = "turn"
    /\ cs_last.agent = <<"a">>
    /\ ~InList("admin", cs_user[cs_last.session])
    /\ \E i \in 1..Len(pages_config) : pages_config[i].admin_only
    /\ cs_events >= 3

\* The record stored for the username in a credentials file (none: <<>>).
RecordsOf(file, username) ==
    SelectSeq(file, LAMBDA user : user.username = username)

\* C26 (as stated): auth_callback returns a user only if the password typed is
\* the password stored for that same username, plain or hashed, whatever the
\* credentials file holds; any other password is rejected with None.
C26_OnlyOwnPasswordAccepted ==
    auth_last.user # NoUser =>
        \E i \in 1..Len(auth_last.before) :
            /\ auth_last.before[i].username = auth_last.username
            /\ auth_last.before[i].password.text = auth_last.password

\* C27 (as stated): the user returned carries the roles and the email stored
\* for the authenticating username, and the result of the call is the same on
\* every credentials file that holds the same record for that username.
C27_OwnRecordDecides ==
    auth_last # NoLogin =>
        /\ auth_last.user # NoUser =>
               \E i \in 1..Len(auth_last.before) :
                   auth_last.user = User(auth_last.username, auth_last.before[i])
        /\ \A other \in CredentialFiles :
               RecordsOf(other, auth_last.username)
                       = RecordsOf(auth_last.before, auth_last.username)
                   => auth_callback(other, auth_last.username,
                                    auth_last.password).user = auth_last.user

\* C28 (as stated): after any sequence of turns, failed and empty ones
\* included, the conversation history stored for a session starts with a user
\* message and alternates user, assistant: no two adjacent messages have the
\* same role.
C28_HistoryAlternates ==
    \A session \in DOMAIN cs_history :
        LET history == cs_history[session]
        IN  /\ history # <<>> => history[1].role = "user"
            /\ \A i \in 1..(Len(history) - 1) : history[i].role # history[i + 1].role

\* The user messages of a conversation.
UserMessages(messages) == SelectSeq(messages, LAMBDA m : m.role = "user")

CommandWord(command) ==
    LET parts == words(Tail(strip(command)))
    IN  IF parts # <<>> THEN lower(parts[1]) ELSE <<>>

====
